---------------------------- MODULE Spec2Model ----------------------------
(***************************************************************************)
(* Model of notebooks/utils.py: the load -> quality check -> clean ->      *)
(* feature building pipeline over one in-memory table, and the Gini        *)
(* coefficient helper.                                                     *)
(*                                                                         *)
(* A table (pandas DataFrame) is a record                                  *)
(*      [dtype : column name -> dtype name, rows : Seq(column name -> cell)]*)
(* and a cell is a record [kind, s, n]: a text value, a number, a          *)
(* timestamp, a calendar date or the null marker (NaN / None / NaT).       *)
(* Column order and the row index labels are not modelled.                 *)
(***************************************************************************)
EXTENDS Integers, Sequences, FiniteSets

VARIABLES pc,          \* position of the session / of load_and_preprocess_data
          args,        \* arguments of the call in progress
          input,       \* the table as it was when the call started
          df,          \* the caller's table (after the call: what the caller still holds)
          out,         \* the table returned by the last call
          again,       \* the table returned by clean_data applied to its own output
          steps,       \* the tables clean_data reported on after its first two steps
          err,         \* the exception the last call raised, "none" when it returned
          quality_report, \* the report bound at line 299
          log,         \* the stage banners printed so far
          values,      \* the argument of gini_coefficient
          gini         \* its result

vars == <<pc, args, input, df, out, again, steps, err, quality_report, log, values, gini>>

-----------------------------------------------------------------------------
(* Bounds of the model *)

MaxRows == 3        \* rows of a table handed to clean_data / preprocess_data
MaxFileRows == 4    \* rows of a file read by load_and_preprocess_data
MaxNums == 4        \* rows of a numeric column handed to check_data_quality
MaxLen == 4         \* length of the argument of gini_coefficient

-----------------------------------------------------------------------------
(* Cells *)

Null == [kind |-> "null", s |-> "", n |-> 0]
Str(x) == [kind |-> "str", s |-> x, n |-> 0]
Num(i) == [kind |-> "num", s |-> "", n |-> i]
Ts(i) == [kind |-> "ts", s |-> "", n |-> i]
Day(i) == [kind |-> "date", s |-> "", n |-> i]

IsNull(c) == c.kind = "null"

AllCols == {"date", "headline", "url", "num"}

-----------------------------------------------------------------------------
(* Tables *)

Cols(t) == DOMAIN t.dtype

NRows(t) == Len(t.rows)

Column(t, c) == [i \in 1..Len(t.rows) |-> t.rows[i][c]]

\* df[col].isnull().sum()
NullCount(t, c) == Cardinality({i \in 1..Len(t.rows) : IsNull(t.rows[i][c])})

\* df.isnull().sum().sum() > 0
HasNull(t) == \E c \in Cols(t) : NullCount(t, c) > 0

\* df[c] = cells (one per row) of dtype dt, every other column kept
SetColumn(t, c, dt, cells) ==
    [dtype |-> [k \in Cols(t) \cup {c} |-> IF k = c THEN dt ELSE t.dtype[k]],
     rows  |-> [i \in 1..Len(t.rows) |->
                  [k \in Cols(t) \cup {c} |->
                      IF k = c THEN cells[i] ELSE t.rows[i][k]]]]

\* the dtype pandas infers for a column of parsed text cells (read_csv):
\* no row -> object, all empty -> float64, any text -> object,
\* numbers with a gap -> float64, numbers only -> int64
InferDtype(rows, c) ==
    LET kinds == {rows[i][c].kind : i \in 1..Len(rows)}
    IN  IF kinds = {} THEN "object"
        ELSE IF kinds = {"null"} THEN "float64"
        ELSE IF "str" \in kinds THEN "object"
        ELSE IF "null" \in kinds THEN "float64"
        ELSE "int64"

\* pd.read_csv: the table of the file's rows over the file's columns
ReadCsv(cols, rows) ==
    LET proj == [i \in 1..Len(rows) |-> [c \in cols |-> rows[i][c]]]
    IN  [dtype |-> [c \in cols |-> InferDtype(proj, c)], rows |-> proj]

-----------------------------------------------------------------------------
(* pd.to_datetime(..., errors='coerce') *)

\* the timestamp a date text denotes, as yyyymmddhh; 0 when it denotes none
ParseDate(s) ==
    CASE s = "2020-01-01 16:00:00" -> 2020010116
      [] s = "2020-01-02 09:30:00" -> 2020010209
      [] OTHER -> 0

ToDatetimeCell(c) ==
    CASE c.kind = "ts" -> c
      [] c.kind = "str" -> IF ParseDate(c.s) = 0 THEN Null ELSE Ts(ParseDate(c.s))
      [] c.kind = "null" -> Null

ToDatetime(t) ==
    SetColumn(t, "date", "datetime64[ns]",
              [i \in 1..Len(t.rows) |-> ToDatetimeCell(t.rows[i]["date"])])


-----------------------------------------------------------------------------
(* Ascending sort (Series.median, Series.quantile) *)

RECURSIVE Insert(_, _)
Insert(x, s) ==
    IF s = << >> THEN <<x>>
    ELSE IF x <= Head(s) THEN <<x>> \o s
    ELSE <<Head(s)>> \o Insert(x, Tail(s))

RECURSIVE SortAsc(_)
SortAsc(s) == IF s = << >> THEN << >> ELSE Insert(Head(s), SortAsc(Tail(s)))

\* the non-null numbers of a column, in row order
Numbers(t, c) ==
    LET present == SelectSeq(Column(t, c), LAMBDA x : ~IsNull(x))
    IN  [i \in 1..Len(present) |-> present[i].n]

\* Series.median() of a non-empty list of numbers: the middle value, or the
\* mean of the two middle values (the numbers of the input tables are even,
\* so that this mean is a whole number)
Median(xs) ==
    LET s == SortAsc(xs)
        n == Len(s)
    IN  IF n % 2 = 1 THEN s[(n + 1) \div 2]
        ELSE (s[n \div 2] + s[n \div 2 + 1]) \div 2

-----------------------------------------------------------------------------
(* clean_data.  A frame is the pair of names clean_data works with: the     *)
(* caller's table `df` and the local `df_clean`; `aliased` says whether the *)
(* two names denote the same object, so that a change made in place through *)
(* df_clean is seen by the caller.                                          *)

\* df_clean = df.copy()            (line 167): a new object with equal content
DfCopyAlias(t) == [caller |-> t, clean |-> t, aliased |-> TRUE]
DfCopy(t) == [caller |-> t, clean |-> t, aliased |-> FALSE]

\* an assignment into the object df_clean names (df_clean[c] = ..., inplace=True)
InPlace(fr, t) ==
    [caller |-> IF fr.aliased THEN t ELSE fr.caller, clean |-> t, aliased |-> fr.aliased]

\* df_clean = <a new table>: the name is rebound, the old object is untouched
Rebind(fr, t) == [caller |-> fr.caller, clean |-> t, aliased |-> FALSE]

\* a row goes only when all of these cells are null (dropna(how='all'))
DropNaAll(t, cols) ==
    [dtype |-> t.dtype,
     rows |-> SelectSeq(t.rows, LAMBDA r : \E c \in cols : ~IsNull(r[c]))]
\* DataFrame.dropna(subset=cols): a row goes when any of these cells is null
DropNa(t, cols) ==
    [dtype |-> t.dtype,
     rows |-> SelectSeq(t.rows, LAMBDA r : \A c \in cols : ~IsNull(r[c]))]

\* lines 175-183: date coercion, and the early drop of rows with an invalid date
FixDates(fr, handle_missing, fix_dates) ==
    IF fix_dates /\ "date" \in Cols(fr.clean)
    THEN LET f1 == InPlace(fr, ToDatetime(fr.clean))
         IN  IF NullCount(f1.clean, "date") > 0 /\ handle_missing = "drop"
             THEN Rebind(f1, DropNa(f1.clean, {"date"}))
             ELSE f1
    ELSE fr

\* Series.fillna(value)
FillNa(cells, value) ==
    [i \in 1..Len(cells) |-> IF IsNull(cells[i]) THEN value ELSE cells[i]]

\* lines 195-199: one column of the fill loop
FillColumn(t, c) ==
    IF NullCount(t, c) > 0
    THEN IF t.dtype[c] \in {"int64", "float64"}
         THEN \* fillna(median): the median of an all-null column is NaN
              IF Numbers(t, c) = << >> THEN t
              ELSE SetColumn(t, c, t.dtype[c],
                             FillNa(Column(t, c), Num(Median(Numbers(t, c)))))
         ELSE SetColumn(t, c, "object", FillNa(Column(t, c), Str("Unknown")))
    ELSE t

\* line 194: for col in df_clean.columns
RECURSIVE FillColumns(_, _)
FillColumns(t, todo) ==
    IF todo = {} THEN t
    ELSE LET c == CHOOSE x \in todo : TRUE
         IN  FillColumns(FillColumn(t, c), todo \ {c})

\* lines 186-203
HandleMissing(fr, handle_missing) ==
    CASE handle_missing = "drop" -> Rebind(fr, DropNa(fr.clean, Cols(fr.clean)))
      [] handle_missing = "fill" -> InPlace(fr, FillColumns(fr.clean, Cols(fr.clean)))
      [] OTHER -> fr

\* DataFrame.drop_duplicates(): a row goes when an equal row precedes it
\* (nulls compare equal to nulls)
DropDuplicatesKeepLast(t) ==
    [dtype |-> t.dtype,
     rows |-> LET idx == {i \in 1..Len(t.rows) :
                            ~\E j \in (i + 1)..Len(t.rows) : t.rows[j] = t.rows[i]}
                  RECURSIVE Pick(_)
                  Pick(i) == IF i > Len(t.rows) THEN << >>
                             ELSE (IF i \in idx THEN <<t.rows[i]>> ELSE << >>) \o Pick(i + 1)
              IN  Pick(1)]
RECURSIVE DedupRows(_, _)
DedupRows(rows, seen) ==
    IF rows = << >> THEN << >>
    ELSE IF Head(rows) \in seen THEN DedupRows(Tail(rows), seen)
    ELSE <<Head(rows)>> \o DedupRows(Tail(rows), seen \cup {Head(rows)})

DropDuplicates(t) == [dtype |-> t.dtype, rows |-> DedupRows(t.rows, {})]

\* lines 206-211
RemoveDuplicates(fr, remove_duplicates) ==
    IF remove_duplicates THEN Rebind(fr, DropDuplicates(fr.clean)) ELSE fr

\* clean_data, lines 167-222: df_clean after the date step (what line 178
\* counts) and after the missing-value step (what line 202 counts), and the
\* frame when it returns df_clean
CleanStepsDedupFirst(t, remove_duplicates, handle_missing, fix_dates) ==
    LET f0 == RemoveDuplicates(DfCopy(t), remove_duplicates)
        f1 == FixDates(f0, handle_missing, fix_dates)
        f2 == HandleMissing(f1, handle_missing)
    IN  [dated |-> f1.clean, handled |-> f2.clean, final |-> f2]
CleanSteps(t, remove_duplicates, handle_missing, fix_dates) ==
    LET f0 == DfCopy(t)
        f1 == FixDates(f0, handle_missing, fix_dates)
        f2 == HandleMissing(f1, handle_missing)
        f3 == RemoveDuplicates(f2, remove_duplicates)
    IN  [dated |-> f1.clean, handled |-> f2.clean, final |-> f3]

\* clean_data, lines 145-222: the frame when it returns df_clean
CleanData(t, remove_duplicates, handle_missing, fix_dates) ==
    CleanSteps(t, remove_duplicates, handle_missing, fix_dates).final

-----------------------------------------------------------------------------
(* preprocess_data *)

\* Series.dt.day_name(): the weekday of a calendar date (Zeller's congruence)
DayName(y, m, d) ==
    LET mm == IF m < 3 THEN m + 12 ELSE m
        yy == IF m < 3 THEN y - 1 ELSE y
        k == yy % 100
        j == yy \div 100
        h == (d + (13 * (mm + 1)) \div 5 + k + k \div 4 + j \div 4 + 5 * j) % 7
    IN  <<"Saturday", "Sunday", "Monday", "Tuesday", "Wednesday", "Thursday", "Friday">>[h + 1]

\* the dtype of an integer column derived from a column that may hold nulls
DerivedIntDtype(t, c, intType) == IF NullCount(t, c) > 0 THEN "float64" ELSE intType

\* the fields of a timestamp cell (Series.dt.year, .month, .day, .hour,
\* .day_name(), .date); a null timestamp gives a null field
YearOf(d) == IF IsNull(d) THEN Null ELSE Num(d.n \div 1000000)
MonthOf(d) == IF IsNull(d) THEN Null ELSE Num((d.n \div 10000) % 100)
DayOf(d) == IF IsNull(d) THEN Null ELSE Num((d.n \div 100) % 100)
HourOf(d) == IF IsNull(d) THEN Null ELSE Num(d.n % 100)
DayNameOf(d) ==
    IF IsNull(d) THEN Null
    ELSE Str(DayName(d.n \div 1000000, (d.n \div 10000) % 100, (d.n \div 100) % 100))
DateOf(d) == IF IsNull(d) THEN Null ELSE Day(d.n \div 100)

\* lines 246-251: year, month, day, day_of_week, hour, date_only
TemporalFeatures(t) ==
    LET n == Len(t.rows)
        it == DerivedIntDtype(t, "date", "int32")
        t1 == SetColumn(t, "year", it, [i \in 1..n |-> YearOf(t.rows[i]["date"])])
        t2 == SetColumn(t1, "month", it, [i \in 1..n |-> MonthOf(t.rows[i]["date"])])
        t3 == SetColumn(t2, "day", it, [i \in 1..n |-> DayOf(t.rows[i]["date"])])
        t4 == SetColumn(t3, "day_of_week", "object",
                        [i \in 1..n |-> DayNameOf(t.rows[i]["date"])])
        t5 == SetColumn(t4, "hour", it, [i \in 1..n |-> HourOf(t.rows[i]["date"])])
    IN  SetColumn(t5, "date_only", "object", [i \in 1..n |-> DateOf(t.rows[i]["date"])])

\* str.split(): the whitespace-delimited tokens of the texts of the model
Words(s) ==
    CASE s = "stocks rise" -> <<"stocks", "rise">>
      [] s = "Unknown" -> <<"Unknown">>

\* Series.str.len() and Series.str.split().str.len() of one cell
StrLen(h) == IF IsNull(h) THEN Null ELSE Num(Len(h.s))
WordCount(h) == IF IsNull(h) THEN Null ELSE Num(Len(Words(h.s)))

\* lines 257-258: headline_length, headline_word_count
HeadlineMetrics(t) ==
    LET n == Len(t.rows)
        it == DerivedIntDtype(t, "headline", "int64")
        t1 == SetColumn(t, "headline_length", it,
                        [i \in 1..n |-> StrLen(t.rows[i]["headline"])])
    IN  SetColumn(t1, "headline_word_count", it,
                  [i \in 1..n |-> WordCount(t.rows[i]["headline"])])

\* line 262, df['date'].min() / .max(): the exception it raises, if any.
\* An absent column is a KeyError; an object column holding values of
\* different Python types (text, Timestamp, float NaN) cannot be ordered.
DateRangeError(t) ==
    IF "date" \notin Cols(t) THEN "KeyError"
    ELSE IF t.dtype["date"] = "object"
            /\ Cardinality({t.rows[i]["date"].kind : i \in 1..Len(t.rows)}) > 1
         THEN "TypeError"
    ELSE "none"

\* preprocess_data, lines 225-264.  It works in place on the table it is
\* given and returns that same object: df is the table after the call,
\* err the exception raised ("none": it returned df).
PreprocessDataDroppingNaT(t) ==
    LET r == IF "date" \in Cols(t) THEN DropNa(t, {"date"}) ELSE t
        r1 == IF "date" \in Cols(r) /\ r.dtype["date"] = "datetime64[ns]"
              THEN TemporalFeatures(r) ELSE r
    IN  IF "headline" \in Cols(r1) /\ r1.dtype["headline"] # "object"
        THEN [df |-> r1, err |-> "AttributeError"]
        ELSE LET r2 == IF "headline" \in Cols(r1) THEN HeadlineMetrics(r1) ELSE r1
             IN  [df |-> r2, err |-> DateRangeError(r2)]
PreprocessData(t) ==
    LET t1 == IF "date" \in Cols(t) /\ t.dtype["date"] = "datetime64[ns]"
              THEN TemporalFeatures(t) ELSE t
    IN  IF "headline" \in Cols(t1) /\ t1.dtype["headline"] # "object"
        THEN \* line 257: the .str accessor of a non-text column
             [df |-> t1, err |-> "AttributeError"]
        ELSE LET t2 == IF "headline" \in Cols(t1) THEN HeadlineMetrics(t1) ELSE t1
             IN  [df |-> t2, err |-> DateRangeError(t2)]

-----------------------------------------------------------------------------
(* check_data_quality *)

\* Series.duplicated().sum(): the entries equal to an earlier entry
DuplicatedCount(s) == Len(s) - Cardinality({s[i] : i \in 1..Len(s)})

\* 4 * Series.quantile(k/4) of an ascending non-empty list (linear interpolation)
Quantile4(s, k) ==
    LET pos == k * (Len(s) - 1)
        i == pos \div 4
        r == pos % 4
    IN  IF r = 0 THEN 4 * s[i + 1]
        ELSE 4 * s[i + 1] + r * (s[i + 2] - s[i + 1])

\* lines 121-126 for one numeric column; the bounds are held times 8
OutlierEntryInclusive(t, c) ==
    LET s == SortAsc(Numbers(t, c))
        q1 == Quantile4(s, 1)
        q3 == Quantile4(s, 3)
        lower == 2 * q1 - 3 * (q3 - q1)
        upper == 2 * q3 + 3 * (q3 - q1)
    IN  IF s = << >>
        THEN [count |-> 0, of |-> NRows(t), lower_bound |-> 0, upper_bound |-> 0]
        ELSE [count |-> Cardinality({i \in 1..Len(s) :
                                        8 * s[i] <= lower \/ 8 * s[i] >= upper}),
              of |-> NRows(t), lower_bound |-> lower, upper_bound |-> upper]
OutlierEntry(t, c) ==
    LET s == SortAsc(Numbers(t, c))
        q1 == Quantile4(s, 1)
        q3 == Quantile4(s, 3)
        lower == 2 * q1 - 3 * (q3 - q1)
        upper == 2 * q3 + 3 * (q3 - q1)
    IN  IF s = << >>
        THEN [count |-> 0, of |-> NRows(t), lower_bound |-> 0, upper_bound |-> 0]
        ELSE [count |-> Cardinality({i \in 1..Len(s) :
                                        8 * s[i] < lower \/ 8 * s[i] > upper}),
              of |-> NRows(t), lower_bound |-> lower, upper_bound |-> upper]

\* lines 56-142: the report (percentages are held as count and row count)
QualityReport(t) ==
    LET missing == {c \in Cols(t) : NullCount(t, c) > 0}
        numeric == {c \in Cols(t) : t.dtype[c] \in {"int64", "float64"}}
        flagged == {c \in numeric : OutlierEntry(t, c).count > 0}
        dates == IF "date" \in Cols(t) THEN ToDatetime(t) ELSE t
    IN  [missing_values |->
            [none |-> missing = {},
             entries |-> [c \in missing |-> [count |-> NullCount(t, c), of |-> NRows(t)]]],
         duplicates |->
            [rows |-> DuplicatedCount(t.rows),
             headlines |-> DuplicatedCount(Column(t, "headline")),
             urls |-> DuplicatedCount(Column(t, "url"))],
         dtypes |-> t.dtype,
         date_quality |->
            IF "date" \in Cols(t)
            THEN [present |-> TRUE,
                  valid |-> NRows(t) - NullCount(dates, "date"),
                  invalid |-> NullCount(dates, "date")]
            ELSE [present |-> FALSE, valid |-> 0, invalid |-> 0],
         outliers |->
            [none |-> numeric = {},
             entries |-> [c \in flagged |-> OutlierEntry(t, c)]]]

NoReport == << >>

\* check_data_quality, lines 39-142: df is the caller's table after the call
CheckDataQualityCoercing(t) ==
    IF ~{"headline", "url"} \subseteq Cols(t)
    THEN [df |-> t, report |-> NoReport, err |-> "KeyError"]
    ELSE [df |-> IF "date" \in Cols(t) THEN ToDatetime(t) ELSE t,
          report |-> QualityReport(t), err |-> "none"]
CheckDataQuality(t) ==
    IF ~{"headline", "url"} \subseteq Cols(t)
    THEN \* lines 78-79: df['headline'], df['url']
         [df |-> t, report |-> NoReport, err |-> "KeyError"]
    ELSE [df |-> t, report |-> QualityReport(t), err |-> "none"]

-----------------------------------------------------------------------------
(* load_data *)

\* lines 28-36; a sample_size of 0 stands for None and for 0, both falsy
LoadData(file, sample_size) ==
    IF sample_size # 0
    THEN ReadCsv(file.cols,
                 SubSeq(file.rows, 1,
                        IF sample_size < Len(file.rows) THEN sample_size ELSE Len(file.rows)))
    ELSE ReadCsv(file.cols, file.rows)

-----------------------------------------------------------------------------
(* float64 arithmetic.  A natural number is the sequence of its limbs in    *)
(* radix Base, least significant first, without leading zero limbs; a       *)
(* double is (-1)^neg * m * 2^e with m such a natural, odd or zero.  Every  *)
(* operation yields the exact result rounded to nearest, ties to even, at   *)
(* MantBits significant bits (the exponent range is never left here).       *)

MantBits == 53
LimbBits == 15
DigitBits == 5
Base == 2 ^ LimbBits

RECURSIVE BTrim(_)
BTrim(a) ==
    IF a = << >> THEN << >>
    ELSE IF a[Len(a)] = 0 THEN BTrim(SubSeq(a, 1, Len(a) - 1))
    ELSE a

RECURSIVE BFromInt(_)
BFromInt(n) == IF n = 0 THEN << >> ELSE <<n % Base>> \o BFromInt(n \div Base)

RECURSIVE BAddC(_, _, _)
BAddC(a, b, c) ==
    IF a = << >> /\ b = << >> THEN (IF c = 0 THEN << >> ELSE <<c>>)
    ELSE LET x == (IF a = << >> THEN 0 ELSE Head(a))
                    + (IF b = << >> THEN 0 ELSE Head(b)) + c
         IN  <<x % Base>> \o BAddC(IF a = << >> THEN << >> ELSE Tail(a),
                                   IF b = << >> THEN << >> ELSE Tail(b),
                                   x \div Base)

BAdd(a, b) == BAddC(a, b, 0)

\* a - b - c for a >= b + c, before trimming
RECURSIVE BSubC(_, _, _)
BSubC(a, b, c) ==
    IF a = << >> THEN << >>
    ELSE LET x == Head(a) - (IF b = << >> THEN 0 ELSE Head(b)) - c
         IN  <<(x + Base) % Base>> \o BSubC(Tail(a),
                                            IF b = << >> THEN << >> ELSE Tail(b),
                                            IF x < 0 THEN 1 ELSE 0)

BSub(a, b) == BTrim(BSubC(a, b, 0))

\* -1, 0, 1 as a < b, a = b, a > b
RECURSIVE BCmp(_, _)
BCmp(a, b) ==
    IF Len(a) # Len(b) THEN (IF Len(a) < Len(b) THEN -1 ELSE 1)
    ELSE IF a = << >> THEN 0
    ELSE IF a[Len(a)] # b[Len(b)] THEN (IF a[Len(a)] < b[Len(b)] THEN -1 ELSE 1)
    ELSE BCmp(SubSeq(a, 1, Len(a) - 1), SubSeq(b, 1, Len(b) - 1))

\* a * k + c for 0 <= k, c < Base
RECURSIVE BMulSmall(_, _, _)
BMulSmall(a, k, c) ==
    IF a = << >> THEN (IF c = 0 THEN << >> ELSE <<c>>)
    ELSE LET x == Head(a) * k + c
         IN  <<x % Base>> \o BMulSmall(Tail(a), k, x \div Base)

RECURSIVE BMul(_, _)
BMul(a, b) ==
    IF a = << >> \/ b = << >> THEN << >>
    ELSE BAdd(BMulSmall(a, Head(b), 0),
              IF Tail(b) = << >> THEN << >> ELSE <<0>> \o BMul(a, Tail(b)))

\* a \div k for 0 < k < Base, from the top limb down; r is the running remainder
RECURSIVE BDivSmallR(_, _, _)
BDivSmallR(a, k, r) ==
    IF a = << >> THEN << >>
    ELSE LET x == r * Base + a[Len(a)]
         IN  BDivSmallR(SubSeq(a, 1, Len(a) - 1), k, x % k) \o <<x \div k>>

BShl(a, s) ==
    IF a = << >> THEN << >>
    ELSE [i \in 1..(s \div LimbBits) |-> 0] \o BMulSmall(a, 2 ^ (s % LimbBits), 0)

BShr(a, s) ==
    IF s \div LimbBits >= Len(a) THEN << >>
    ELSE BTrim(BDivSmallR(SubSeq(a, s \div LimbBits + 1, Len(a)), 2 ^ (s % LimbBits), 0))

RECURSIVE BitLenInt(_)
BitLenInt(n) == IF n = 0 THEN 0 ELSE 1 + BitLenInt(n \div 2)

BBitLen(a) == IF a = << >> THEN 0 ELSE LimbBits * (Len(a) - 1) + BitLenInt(a[Len(a)])

RECURSIVE TrailingZerosInt(_)
TrailingZerosInt(n) == IF n % 2 = 1 THEN 0 ELSE 1 + TrailingZerosInt(n \div 2)

\* the number of trailing zero bits of a # 0
RECURSIVE BTrailingZeros(_)
BTrailingZeros(a) ==
    IF Head(a) = 0 THEN LimbBits + BTrailingZeros(Tail(a)) ELSE TrailingZerosInt(Head(a))

\* the number of DigitBits-bit digits of a
BDigits(a) == (BBitLen(a) + DigitBits - 1) \div DigitBits

\* digit i (from 0, least significant first) of a in radix 2^DigitBits
BDigit(a, i) ==
    LET bit == i * DigitBits
    IN  IF bit \div LimbBits >= Len(a) THEN 0
        ELSE (a[bit \div LimbBits + 1] \div (2 ^ (bit % LimbBits))) % (2 ^ DigitBits)

\* long division of the digits i and above of a by d: quotient, remainder
RECURSIVE BDivModR(_, _, _)
BDivModR(a, d, i) ==
    IF i >= BDigits(a) THEN [q |-> << >>, r |-> << >>]
    ELSE LET prev == BDivModR(a, d, i + 1)
             r1 == BMulSmall(prev.r, 2 ^ DigitBits, BDigit(a, i))
             k == Cardinality({j \in 1..(2 ^ DigitBits - 1) : BCmp(BMulSmall(d, j, 0), r1) <= 0})
         IN  [q |-> BMulSmall(prev.q, 2 ^ DigitBits, k), r |-> BSub(r1, BMulSmall(d, k, 0))]

BDivMod(a, d) == BDivModR(a, d, 0)

(* doubles: (-1)^neg * m * 2^e with m a natural that is odd, or zero *)
FZero == [neg |-> FALSE, m |-> << >>, e |-> 0]

FNorm(neg, m, e) ==
    IF m = << >> THEN FZero
    ELSE LET tz == BTrailingZeros(m)
         IN  [neg |-> neg, m |-> BShr(m, tz), e |-> e + tz]

\* round to nearest, ties to even, to MantBits significant bits
FRound(neg, m, e) ==
    IF BBitLen(m) <= MantBits THEN FNorm(neg, m, e)
    ELSE LET s == BBitLen(m) - MantBits
             q == BShr(m, s)
             rest == BSub(m, BShl(q, s))
             c == BCmp(rest, BShl(<<1>>, s - 1))
             up == c > 0 \/ (c = 0 /\ q[1] % 2 = 1)
         IN  FNorm(neg, IF up THEN BAdd(q, <<1>>) ELSE q, e + s)

FFromInt(n) == IF n < 0 THEN FRound(TRUE, BFromInt(-n), 0) ELSE FRound(FALSE, BFromInt(n), 0)

FNeg(a) == IF a.m = << >> THEN a ELSE [a EXCEPT !.neg = ~a.neg]

FAdd(a, b) ==
    LET e == IF a.e < b.e THEN a.e ELSE b.e
        ma == BShl(a.m, a.e - e)
        mb == BShl(b.m, b.e - e)
    IN  IF a.m = << >> THEN b
        ELSE IF b.m = << >> THEN a
        ELSE IF a.neg = b.neg THEN FRound(a.neg, BAdd(ma, mb), e)
        ELSE IF BCmp(ma, mb) >= 0 THEN FRound(a.neg, BSub(ma, mb), e)
        ELSE FRound(b.neg, BSub(mb, ma), e)

FSub(a, b) == FAdd(a, FNeg(b))

FMul(a, b) == FRound(a.neg # b.neg, BMul(a.m, b.m), a.e + b.e)

\* a / b for b # 0: the quotient to at least MantBits + 2 bits, and a sticky bit
FDiv(a, b) ==
    IF a.m = << >> THEN FZero
    ELSE LET need == BBitLen(b.m) + MantBits + 2 - BBitLen(a.m)
             k == IF need > 0 THEN need ELSE 0
             qr == BDivMod(BShl(a.m, k), b.m)
         IN  FRound(a.neg # b.neg, BMulSmall(qr.q, 2, IF qr.r = << >> THEN 0 ELSE 1),
                    a.e - b.e - k - 1)

\* -1, 0, 1 as a < b, a = b, a > b
FCmp(a, b) ==
    LET d == FSub(a, b)
    IN  IF d.m = << >> THEN 0 ELSE IF d.neg THEN -1 ELSE 1

-----------------------------------------------------------------------------
(* gini_coefficient *)

\* the float64 of a Python int
PyInt(i) == FFromInt(i)

\* the float64 of the decimal literal n/d, the double nearest to it
PyFloat(n, d) == FDiv(FFromInt(n), FFromInt(d))

\* np.sum of a float64 array of fewer than 8 elements: added left to right
RECURSIVE NpSumR(_, _)
NpSumR(s, acc) == IF s = << >> THEN acc ELSE NpSumR(Tail(s), FAdd(acc, Head(s)))

NpSum(s) == NpSumR(s, FZero)

RECURSIVE NpInsert(_, _)
NpInsert(x, s) ==
    IF s = << >> THEN <<x>>
    ELSE IF FCmp(x, Head(s)) <= 0 THEN <<x>> \o s
    ELSE <<Head(s)>> \o NpInsert(x, Tail(s))

\* np.sort(values)
RECURSIVE NpSort(_)
NpSort(xs) == IF xs = << >> THEN << >> ELSE NpInsert(Head(xs), NpSort(Tail(xs)))

\* lines 350-353, in float64.  (An all-int argument makes an int64 array
\* whose products and sums are whole numbers far below 2^53, which float64
\* holds exactly, and the division converts them to float64: the same
\* result.)  0/0 is nan, x/0 is inf, and (n+1)/n with n = 0 raises
\* ZeroDivisionError.
GiniCoefficient(xs) ==
    LET sorted_values == NpSort(xs)
        n == Len(xs)
        index == [i \in 1..n |-> FFromInt(i)]
        weighted == NpSum([i \in 1..n |-> FMul(index[i], sorted_values[i])])
        total == NpSum(sorted_values)
        den == FMul(FFromInt(n), total)
    IN  IF n = 0 THEN [status |-> "ZeroDivisionError", x |-> FZero]
        ELSE IF den = FZero
             THEN [status |-> IF weighted = FZero THEN "nan" ELSE "inf", x |-> FZero]
        ELSE [status |-> "ok",
              x |-> FSub(FDiv(FMul(FFromInt(2), weighted), den),
                         FDiv(FFromInt(n + 1), FFromInt(n)))]

-----------------------------------------------------------------------------
(* The inputs of the model *)

SeqsUpTo(S, n) == UNION {[1..k -> S] : k \in 0..n}

MakeRow(date, headline, url, num) ==
    [c \in AllCols |->
        CASE c = "date" -> date
          [] c = "headline" -> headline
          [] c = "url" -> url
          [] c = "num" -> num]

\* rows of the raw file: a clean row, an unparseable date, a missing date,
\* a missing number, a missing headline with a far-off number
RowUniverse ==
    {MakeRow(Str("2020-01-01 16:00:00"), Str("stocks rise"), Str("u1"), Num(2)),
     MakeRow(Str("not a date"), Str("stocks rise"), Str("u1"), Num(2)),
     MakeRow(Null, Str("stocks rise"), Str("u1"), Num(2)),
     MakeRow(Str("2020-01-01 16:00:00"), Str("stocks rise"), Str("u1"), Null),
     MakeRow(Str("2020-01-02 09:30:00"), Null, Str("u2"), Num(100))}

FileRowUniverse ==
    {MakeRow(Str("2020-01-01 16:00:00"), Str("stocks rise"), Str("u1"), Num(2)),
     MakeRow(Str("not a date"), Str("stocks rise"), Str("u1"), Null),
     MakeRow(Null, Str("stocks rise"), Str("u1"), Num(2)),
     MakeRow(Str("2020-01-02 09:30:00"), Null, Str("u2"), Num(100))}

Schemas == {AllCols, AllCols \ {"date"}, AllCols \ {"headline"}}

HandleMissingModes == {"report", "drop", "fill"}

\* numeric columns: short ones, and the column of the outlier example
NumColumns ==
    SeqsUpTo({Null, Num(2), Num(100)}, MaxNums)
        \cup {<<Num(1), Num(2), Num(3), Num(4), Num(5), Num(100)>>}

\* the arguments of gini_coefficient are made of 0, 1, 10 and 0.7
GiniValues == {PyInt(0), PyInt(1), PyInt(10), PyFloat(7, 10)}

EmptyTable == [dtype |-> << >>, rows |-> << >>]

NoArgs ==
    [remove_duplicates |-> FALSE, handle_missing |-> "report", fix_dates |-> FALSE,
     clean |-> FALSE, sample_size |-> 0, file |-> [cols |-> {}, rows |-> << >>]]

NoSteps == [dated |-> EmptyTable, handled |-> EmptyTable]

NoGini == [status |-> "none", x |-> FZero]

-----------------------------------------------------------------------------
(* The session: one call of one function of the module *)

Init ==
    /\ pc = "idle"
    /\ args = NoArgs
    /\ input = EmptyTable
    /\ df = EmptyTable
    /\ out = EmptyTable
    /\ again = EmptyTable
    /\ steps = NoSteps
    /\ err = "none"
    /\ quality_report = NoReport
    /\ log = << >>
    /\ values = << >>
    /\ gini = NoGini

\* clean_data(df, remove_duplicates, handle_missing, fix_dates) on a raw table
CleanCall ==
    /\ pc = "idle"
    /\ \E cols \in Schemas, rows \in SeqsUpTo(RowUniverse, MaxRows),
          rd \in BOOLEAN, hm \in HandleMissingModes, fd \in BOOLEAN :
          LET t == ReadCsv(cols, rows)
              run == CleanSteps(t, rd, hm, fd)
          IN  /\ args' = [NoArgs EXCEPT !.remove_duplicates = rd,
                                        !.handle_missing = hm, !.fix_dates = fd]
              /\ input' = t
              /\ steps' = [dated |-> run.dated, handled |-> run.handled]
              /\ df' = run.final.caller
              /\ out' = run.final.clean
    /\ pc' = "cleaned"
    /\ log' = <<"DATA CLEANING">>
    /\ UNCHANGED <<again, err, quality_report, values, gini>>

\* clean_data, same policy, on the table the first call returned
CleanAgain ==
    /\ pc = "cleaned"
    /\ again' = CleanData(out, args.remove_duplicates, args.handle_missing,
                          args.fix_dates).clean
    /\ pc' = "recleaned"
    /\ log' = Append(log, "DATA CLEANING")
    /\ UNCHANGED <<args, input, df, out, steps, err, quality_report, values, gini>>

\* preprocess_data(df) on a raw table
PreprocessCall ==
    /\ pc = "idle"
    /\ \E cols \in Schemas, rows \in SeqsUpTo(RowUniverse, MaxRows) :
          LET t == ReadCsv(cols, rows)
              r == PreprocessData(t)
          IN  /\ input' = t
              /\ df' = r.df
              /\ out' = IF r.err = "none" THEN r.df ELSE EmptyTable
              /\ err' = r.err
    /\ pc' = "preprocessed"
    /\ log' = <<"FEATURE ENGINEERING">>
    /\ UNCHANGED <<args, again, steps, quality_report, values, gini>>

\* preprocess_data(df) on the table clean_data returned
PreprocessCleaned ==
    /\ pc = "cleaned"
    /\ LET r == PreprocessData(out)
       IN  /\ input' = out
           /\ df' = r.df
           /\ out' = IF r.err = "none" THEN r.df ELSE EmptyTable
           /\ err' = r.err
    /\ pc' = "preprocessed"
    /\ log' = Append(log, "FEATURE ENGINEERING")
    /\ UNCHANGED <<args, again, steps, quality_report, values, gini>>

\* load_and_preprocess_data(file_path, sample_size, clean, remove_duplicates,
\* handle_missing) is entered
PipelineCall ==
    /\ pc = "idle"
    /\ \E cols \in Schemas, rows \in SeqsUpTo(FileRowUniverse, MaxFileRows),
          n \in {0, MaxFileRows - 1}, c \in BOOLEAN, rd \in BOOLEAN,
          hm \in HandleMissingModes :
          args' = [remove_duplicates |-> rd, handle_missing |-> hm, fix_dates |-> TRUE,
                   clean |-> c, sample_size |-> n,
                   file |-> [cols |-> cols, rows |-> rows]]
    /\ pc' = "load"
    /\ UNCHANGED <<input, df, out, again, steps, err, quality_report, log, values, gini>>

\* line 296: df = load_data(file_path, sample_size)
Load ==
    /\ pc = "load"
    /\ df' = LoadData(args.file, args.sample_size)
    /\ input' = df'
    /\ log' = Append(log, "Loading dataset...")
    /\ pc' = "check"
    /\ UNCHANGED <<args, out, again, steps, err, quality_report, values, gini>>

\* line 299: quality_report = check_data_quality(df)
Check ==
    /\ pc = "check"
    /\ LET r == CheckDataQuality(df)
       IN  /\ df' = r.df
           /\ quality_report' = r.report
           /\ err' = r.err
           /\ pc' = IF r.err = "none" THEN "clean" ELSE "raised"
    /\ log' = Append(log, "DATA QUALITY CHECKS")
    /\ UNCHANGED <<args, input, out, again, steps, values, gini>>

\* lines 302-304: if clean: df = clean_data(df, ..., fix_dates=True)
Clean ==
    /\ pc = "clean"
    /\ IF args.clean
       THEN /\ df' = CleanData(df, args.remove_duplicates, args.handle_missing, TRUE).clean
            /\ log' = Append(log, "DATA CLEANING")
       ELSE UNCHANGED <<df, log>>
    /\ pc' = "preprocess"
    /\ UNCHANGED <<args, input, out, again, steps, err, quality_report, values, gini>>

\* line 307: df = preprocess_data(df)
Preprocess ==
    /\ pc = "preprocess"
    /\ LET r == PreprocessData(df)
       IN  /\ df' = r.df
           /\ err' = r.err
           /\ pc' = IF r.err = "none" THEN "return" ELSE "raised"
    /\ log' = Append(log, "FEATURE ENGINEERING")
    /\ UNCHANGED <<args, input, out, again, steps, quality_report, values, gini>>

\* line 309: return df, quality_report
Return ==
    /\ pc = "return"
    /\ out' = df
    /\ pc' = "done"
    /\ UNCHANGED <<args, input, df, again, steps, err, quality_report, log, values, gini>>

\* check_data_quality(df) on a table whose numeric column is given
QualityCall ==
    /\ pc = "idle"
    /\ \E cols \in {AllCols, AllCols \ {"num"}}, nums \in NumColumns :
          LET t == ReadCsv(cols,
                           [i \in 1..Len(nums) |->
                               MakeRow(Str("2020-01-01 16:00:00"), Str("stocks rise"),
                                       Str("u1"), nums[i])])
              r == CheckDataQuality(t)
          IN  /\ input' = t
              /\ df' = r.df
              /\ quality_report' = r.report
              /\ err' = r.err
    /\ pc' = "checked"
    /\ log' = <<"DATA QUALITY CHECKS">>
    /\ UNCHANGED <<args, out, again, steps, values, gini>>

\* gini_coefficient(values)
GiniCall ==
    /\ pc = "idle"
    /\ \E xs \in SeqsUpTo(GiniValues, MaxLen) :
          /\ values' = xs
          /\ gini' = GiniCoefficient(xs)
    /\ pc' = "gini"
    /\ UNCHANGED <<args, input, df, out, again, steps, err, quality_report, log>>

Next ==
    \/ CleanCall
    \/ CleanAgain
    \/ PreprocessCall
    \/ PreprocessCleaned
    \/ PipelineCall
    \/ Load
    \/ Check
    \/ Clean
    \/ Preprocess
    \/ Return
    \/ QualityCall
    \/ GiniCall

Spec == Init /\ [][Next]_vars

-----------------------------------------------------------------------------
(* Properties *)

Policy == <<args.remove_duplicates, args.handle_missing, args.fix_dates>>

\* C1: after clean_data with handle_missing='fill' the returned table holds
\* no null value in any column, whatever remove_duplicates and fix_dates are.
C1_FillLeavesNoNull ==
    (pc = "cleaned" /\ args.handle_missing = "fill") => ~HasNull(out)

\* C2: with remove_duplicates=True, clean_data applied with the same policy
\* to its own output returns a table identical to that output.
C2_CleaningIdempotent ==
    (pc = "recleaned" /\ args.remove_duplicates) =>
        /\ again = out
        /\ NRows(again) = NRows(out)

\* a second run after a first run that filled values and removed rows
C2_Witness ==
    /\ pc = "recleaned"
    /\ args.remove_duplicates
    /\ args.handle_missing = "fill"
    /\ args.fix_dates
    /\ HasNull(input)
    /\ NRows(out) < NRows(input)
    /\ NRows(out) >= 2

\* C3: clean_data returns at most as many rows as it was given,
\* preprocess_data returns exactly as many, and along a pipeline run the
\* table never has more rows than the table that was loaded.
C3_RowCountNeverGrows ==
    /\ pc = "cleaned" => NRows(out) <= NRows(input)
    /\ pc = "recleaned" => NRows(again) <= NRows(out)
    /\ (pc = "preprocessed" /\ err = "none") => NRows(out) = NRows(input)
    /\ pc \in {"check", "clean", "preprocess", "return", "raised"} =>
           NRows(df) <= NRows(input)
    /\ pc = "done" => NRows(out) <= NRows(input)

\* a pipeline run that returns fewer rows than it loaded, with null dates left
C3_Witness ==
    /\ pc = "done"
    /\ args.clean
    /\ 0 < NRows(out)
    /\ NRows(out) < NRows(input)
    /\ NullCount(out, "date") > 0

\* C4: clean_data leaves the caller's table as it was: same columns, rows,
\* values and nulls, for every policy.
C4_CallerTableUnchanged ==
    pc \in {"cleaned", "recleaned"} => df = input

\* a call that coerced dates and filled nulls on its copy
C4_Witness ==
    /\ pc = "cleaned"
    /\ args.fix_dates
    /\ args.handle_missing = "fill"
    /\ "date" \in Cols(input)
    /\ HasNull(input)
    /\ ~HasNull(out)
    /\ out.rows # input.rows
    /\ out.dtype # input.dtype

\* the banners of a complete pipeline run, in order
ExpectedLog ==
    <<"Loading dataset...", "DATA QUALITY CHECKS">>
        \o (IF args.clean THEN <<"DATA CLEANING">> ELSE << >>)
        \o <<"FEATURE ENGINEERING">>

\* C5: load_and_preprocess_data runs load, quality check, clean (when
\* enabled), preprocess in this order; the report it holds from the check on
\* is the report of the table as loaded, cleaning and feature building do
\* not change it, and the check hands the loaded table on unchanged.
C5_ReportIsOfLoadedTable ==
    /\ pc \in {"clean", "preprocess", "return", "done"} =>
           quality_report = CheckDataQuality(input).report
    /\ pc = "clean" => df = input
    /\ pc = "done" => log = ExpectedLog

\* a returned run whose cleaning changed the table the report was made from
C5_Witness ==
    /\ pc = "done"
    /\ args.clean
    /\ NRows(out) < NRows(input)
    /\ ~quality_report.missing_values.none
    /\ quality_report.duplicates.rows > 0
    /\ quality_report.date_quality.invalid > 0
    /\ CheckDataQuality([dtype |-> input.dtype, rows |-> out.rows]).report
           # quality_report

\* C6: preprocess_data returns normally, raising nothing, and only skips the
\* derivation concerned, when the table has no date column, when its date
\* column is not of timestamp type, and when it has no headline column.
C6_MissingPrerequisiteIsSilent ==
    pc = "preprocessed" =>
        /\ ("date" \notin Cols(input) \/ input.dtype["date"] # "datetime64[ns]") =>
               /\ err = "none"
               /\ Cols(df) \cap {"year", "month", "day", "day_of_week", "hour",
                                 "date_only"} = {}
        /\ "headline" \notin Cols(input) =>
               /\ err = "none"
               /\ Cols(df) \cap {"headline_length", "headline_word_count"} = {}

\* the ascending arrangement of xs, found by its defining property
Ascending(xs) ==
    CHOOSE s \in [1..Len(xs) -> {xs[i] : i \in 1..Len(xs)}] :
        /\ \A i \in 1..(Len(xs) - 1) : s[i] <= s[i + 1]
        /\ \A v \in {xs[i] : i \in 1..Len(xs)} :
               Cardinality({i \in 1..Len(xs) : s[i] = v})
                   = Cardinality({i \in 1..Len(xs) : xs[i] = v})

Orderings(n) == {p \in [1..n -> 1..n] : \A i, j \in 1..n : p[i] = p[j] => i = j}

\* 2*sum(i*x_i)/(n*sum(x_i)) - (n+1)/n over xs as it stands
GiniFormula(xs) ==
    LET n == Len(xs)
    IN  FSub(FDiv(FMul(PyInt(2), NpSum([i \in 1..n |-> FMul(PyInt(i), xs[i])])),
                  FMul(PyInt(n), NpSum(xs))),
             FDiv(PyInt(n + 1), PyInt(n)))

IsAscending(xs) == \A i \in 1..(Len(xs) - 1) : FCmp(xs[i], xs[i + 1]) <= 0

\* C7: for non-empty non-negative values of positive sum gini_coefficient
\* lies in [0, 1], is 0 when all values are equal, is 0.75 for [0,0,0,10],
\* equals 2*sum(i*x_i)/(n*sum(x_i)) - (n+1)/n over the ascending values, and
\* is the same for every order of the input.
C7_GiniRangeAndFormula ==
    (pc = "gini" /\ values # << >> /\ FCmp(NpSum(values), FZero) > 0) =>
        LET n == Len(values)
        IN  /\ gini.status = "ok"
            /\ FCmp(gini.x, PyInt(0)) >= 0
            /\ FCmp(gini.x, PyInt(1)) <= 0
            /\ (\A i \in 1..n : values[i] = values[1]) => gini.x = PyInt(0)
            /\ values = <<PyInt(0), PyInt(0), PyInt(0), PyInt(10)>>
                   => gini.x = PyFloat(3, 4)
            /\ \A p \in Orderings(n) :
                   LET ys == [i \in 1..n |-> values[p[i]]]
                   IN  /\ GiniCoefficient(ys) = gini
                       /\ IsAscending(ys) => gini.x = GiniFormula(ys)

\* the rows of a list that no equal row precedes, in their order
FirstOccurrences(rows) ==
    LET kept == {i \in 1..Len(rows) : \A j \in 1..(i - 1) : rows[j] # rows[i]}
        nth(k) == CHOOSE i \in kept : Cardinality({j \in kept : j < i}) = k - 1
    IN  [k \in 1..Cardinality(kept) |-> rows[nth(k)]]

NoTwoEqualRows(t) ==
    \A i, j \in 1..NRows(t) : t.rows[i] = t.rows[j] => i = j

\* C8: clean_data coerces dates, then handles missing values, then removes
\* duplicates, each step on the result of the one before; with
\* remove_duplicates=True the result has no two identical rows and is the
\* result of the missing-value step restricted to the first occurrence of
\* each distinct row, survivors in their original order.
C8_StepsInOrderKeepFirst ==
    pc = "cleaned" =>
        /\ steps.dated = FixDates(DfCopy(input), args.handle_missing, args.fix_dates).clean
        /\ steps.handled = HandleMissing(DfCopy(steps.dated), args.handle_missing).clean
        /\ IF args.remove_duplicates
           THEN /\ NoTwoEqualRows(out)
                /\ out.dtype = steps.handled.dtype
                /\ out.rows = FirstOccurrences(steps.handled.rows)
           ELSE out = steps.handled

\* rows that differ in the input, are made equal by coercion or filling, and
\* go, while an earlier and a later distinct row stay in order
C8_Witness ==
    /\ pc = "cleaned"
    /\ args.remove_duplicates
    /\ NoTwoEqualRows(input)
    /\ NRows(input) = 3
    /\ NRows(out) = 2
    /\ NRows(steps.handled) = 3
    /\ steps.handled.rows[1] = steps.handled.rows[3]
    /\ out.rows = <<steps.handled.rows[1], steps.handled.rows[2]>>

\* the rows of t with a parseable date and no null elsewhere, dates coerced
SingleDropPass(t) ==
    LET coerced == [i \in 1..NRows(t) |->
                       [c \in Cols(t) |->
                           IF c = "date" THEN ToDatetimeCell(t.rows[i][c])
                           ELSE t.rows[i][c]]]
    IN  [dtype |-> [c \in Cols(t) |->
                       IF c = "date" THEN "datetime64[ns]" ELSE t.dtype[c]],
         rows |-> SelectSeq(coerced, LAMBDA r : \A c \in Cols(t) : ~IsNull(r[c]))]

\* C9: with handle_missing='drop' and fix_dates=True the date step and the
\* general step together keep, before duplicate removal, exactly the input
\* rows with a parseable date and no null in any other column, in their
\* order; with handle_missing='report' no step removes a row and a row with
\* an invalid date stays, its date null.
C9_SingleRemovalPass ==
    pc = "cleaned" =>
        /\ (args.handle_missing = "drop" /\ args.fix_dates) =>
               /\ steps.handled = SingleDropPass(input)
               /\ \A i \in 1..NRows(steps.dated) :
                      "date" \in Cols(input) => ~IsNull(steps.dated.rows[i]["date"])
        /\ args.handle_missing = "report" =>
               /\ steps.handled = steps.dated
               /\ NRows(steps.dated) = NRows(input)
               /\ \A i \in 1..NRows(input) : \A c \in Cols(input) :
                      steps.handled.rows[i][c] =
                          IF c = "date" /\ args.fix_dates
                          THEN ToDatetimeCell(input.rows[i][c])
                          ELSE input.rows[i][c]

\* a drop run in which the date step removes one row and the general step
\* another, and a third row stays
C9_Witness ==
    /\ pc = "cleaned"
    /\ args.handle_missing = "drop"
    /\ args.fix_dates
    /\ NRows(input) = 3
    /\ NRows(steps.dated) = 2
    /\ NRows(steps.handled) = 1
    /\ \E i \in 1..3 : input.rows[i]["date"].kind = "str"
                          /\ IsNull(ToDatetimeCell(input.rows[i]["date"]))

\* 4 * the k-th quartile of an ascending list: (1-g)*a[lo] + g*a[hi] at the
\* fractional position k*(n-1)/4
Quartile4(a, k) ==
    LET lo == (k * (Len(a) - 1)) \div 4
        hi == (k * (Len(a) - 1) + 3) \div 4
        g4 == (k * (Len(a) - 1)) % 4
    IN  (4 - g4) * a[lo + 1] + g4 * a[hi + 1]

\* 8 * the IQR bounds of the non-null numbers xs
LowerBound8(xs) ==
    2 * Quartile4(Ascending(xs), 1)
        - 3 * (Quartile4(Ascending(xs), 3) - Quartile4(Ascending(xs), 1))
UpperBound8(xs) ==
    2 * Quartile4(Ascending(xs), 3)
        + 3 * (Quartile4(Ascending(xs), 3) - Quartile4(Ascending(xs), 1))

\* the values strictly outside the bounds
OutlierCount(xs) ==
    IF xs = << >> THEN 0
    ELSE Cardinality({i \in 1..Len(xs) :
                         8 * xs[i] < LowerBound8(xs) \/ 8 * xs[i] > UpperBound8(xs)})

NumericCols(t) == {c \in Cols(t) : t.dtype[c] \in {"int64", "float64"}}

\* C10: for every numeric column check_data_quality takes Q1 and Q3 by linear
\* interpolation, the bounds Q1 - 1.5*IQR and Q3 + 1.5*IQR, and counts the
\* values strictly outside them; a column is listed iff its count is at
\* least 1; no numeric column gives the None marker; [1,2,3,4,5,100] gives
\* Q1 = 2.25, Q3 = 4.75, bounds [-1.5, 8.5] and one outlier.
C10_OutlierBounds ==
    (pc \in {"checked", "clean", "preprocess", "return", "done"} /\ err = "none") =>
        LET rep == quality_report.outliers
        IN  /\ rep.none <=> NumericCols(input) = {}
            /\ DOMAIN rep.entries =
                   {c \in NumericCols(input) : OutlierCount(Numbers(input, c)) >= 1}
            /\ \A c \in DOMAIN rep.entries :
                   /\ rep.entries[c].count = OutlierCount(Numbers(input, c))
                   /\ rep.entries[c].lower_bound = LowerBound8(Numbers(input, c))
                   /\ rep.entries[c].upper_bound = UpperBound8(Numbers(input, c))
                   /\ rep.entries[c].of = NRows(input)
            /\ ("num" \in Cols(input) /\ Numbers(input, "num") = <<1, 2, 3, 4, 5, 100>>) =>
                   /\ Quantile4(Numbers(input, "num"), 1) = 9
                   /\ Quantile4(Numbers(input, "num"), 3) = 19
                   /\ rep.entries["num"] =
                          [count |-> 1, of |-> 6, lower_bound |-> -12, upper_bound |-> 68]

\* the example column has been checked
C10_Witness ==
    /\ pc = "checked"
    /\ "num" \in Cols(input)
    /\ Numbers(input, "num") = <<1, 2, 3, 4, 5, 100>>
    /\ DOMAIN quality_report.outliers.entries = {"num"}

=============================================================================
